---- MODULE Spec2Model ----
(***************************************************************************)
(* The refresh-and-normalize pipeline of the FPL dashboard (src/app.py):   *)
(* the store fpl.db (tables players and gameweek_history, file             *)
(* modification time), check_and_update_db, update_database, the           *)
(* normalisation of a snapshot into player rows, the history upsert, and   *)
(* the cumulative-points computation of the comparison view.               *)
(*                                                                         *)
(* Time is counted in hours.  A SQL table is a bag of rows (a function     *)
(* from rows to their positive multiplicity) or, where the row order is    *)
(* observable (a DataFrame written by to_sql), a sequence of rows.         *)
(* REAL values are tagged rationals so that IEEE division by zero (inf,    *)
(* nan) is a value of the model and not an error of it.                    *)
(*                                                                         *)
(* Spec is the script run of one process.  SpecAnomaly adds snapshots with *)
(* shape anomalies, SpecConcurrent runs update_database in two processes,  *)
(* SpecView is the comparison view.                                        *)
(***************************************************************************)
EXTENDS Integers, Sequences, FiniteSets, TLC

VARIABLES
    dbExists,    \* os.path.exists(DB_NAME)
    mtime,       \* os.path.getmtime(DB_NAME), in hours
    now,         \* the wall clock, in hours
    players,     \* table players: [exists, cols, rows]
    history,     \* table gameweek_history: [exists, rows], committed content
    txn,         \* uncommitted history rows of the open connection (line 100)
    pc,          \* position of the script run
    caller,      \* which branch of check_and_update_db called update_database
    fpl_data,    \* the snapshot held by update_database (line 80)
    i,           \* loop index of line 110 (players already processed)
    attempts,    \* history fetches made by this refresh: <<[id, resp]>>
    refreshes,   \* update_database calls started by this script run
    pre,         \* rows persisted when update_database was called
    deferred,    \* a refresh was aborted and nothing was written since
    probeCursor, \* the probe's cursor holds a fetched row, and so a read lock
    error,       \* the exception that ended the last script run, or "none"
    view,        \* input and output of the comparison view (lines 199-208)
    run,         \* locals of the script run: is_schema_correct, how it began,
                 \* when its refresh started (kept until the first write of
                 \* the snapshot, line 101)
    fileFormat,  \* what the file fpl.db holds: "sqlite" or "garbage"
    procs        \* the processes of the concurrent refresh (SpecConcurrent)

vars == <<dbExists, mtime, now, players, history, txn, pc, caller, fpl_data,
          i, attempts, refreshes, pre, deferred, probeCursor, error, view,
          run, fileFormat, procs>>

-----------------------------------------------------------------------------
(* Bounds and program constants *)

MaxPlayers == 2
MaxTicks == 3
UPDATE_INTERVAL_HOURS == 12
\* the clock advances in steps of half the staleness threshold, so that an age
\* of exactly UPDATE_INTERVAL_HOURS and ages on both sides of it are reached
TickHours == UPDATE_INTERVAL_HOURS \div 2
MaxTime == MaxTicks * TickHours

Null == "<null>"

-----------------------------------------------------------------------------
(* REAL values: floats as tagged rationals *)

Num(n, d) == [k |-> "num", n |-> n, d |-> d]
PosInf == [k |-> "inf", n |-> 1, d |-> 0]
NegInf == [k |-> "inf", n |-> -1, d |-> 0]
NaN == [k |-> "nan", n |-> 0, d |-> 0]

IsNum(x) == x.k = "num"
NumEq(x, y) == IsNum(x) /\ IsNum(y) /\ x.n * y.d = y.n * x.d
NumMul(x, y) == Num(x.n * y.n, x.d * y.d)

\* numpy true division of float operands: x / 0 is +-inf, 0 / 0 is nan
FloatDiv(x, y) ==
    IF y.n = 0
    THEN IF x.n = 0 THEN NaN ELSE IF x.n > 0 THEN PosInf ELSE NegInf
    ELSE IF y.n > 0 THEN Num(x.n * y.d, x.d * y.n)
         ELSE Num(-(x.n * y.d), -(x.d * y.n))

\* Series.fillna(0): only a missing value (NaN) is replaced
FillNa(x) == IF x.k = "nan" THEN Num(0, 1) ELSE x

-----------------------------------------------------------------------------
(* The snapshot (bootstrap-static) and the Normalizer, lines 85-98 *)

\* teams and element_types of the snapshot: id -> name
Teams == (1 :> "ARS") @@ (2 :> "CHE")
ElementTypes == (1 :> "GKP") @@ (2 :> "FWD")

\* selected_by_percent is text; the numbers these texts denote
NumericText == ("0.0" :> Num(0, 10)) @@ ("12.5" :> Num(125, 10))

\* pd.to_numeric(series) on one element (errors='raise' is the default)
ToNumeric(s) == IF s \in DOMAIN NumericText THEN NumericText[s] ELSE [k |-> "ValueError", n |-> 0, d |-> 0]

\* Series.map(lookup): an id absent from the lookup maps to NaN
MapLookup(lookup, id) == IF id \in DOMAIN lookup THEN lookup[id] ELSE Null

\* str + str on object Series: a missing operand makes the result missing
StrCat(a, b) == IF a = Null \/ b = Null THEN Null ELSE a \o b

\* players_df['cost'] = players_df['now_cost'] / 10.0
Cost(now_cost) == Num(now_cost, 10)

\* (players_df['total_points'] / players_df['cost']).fillna(0)
PointsPerMillion(total_points, cost) == FillNa(FloatDiv(Num(total_points, 1), cost))

\* one row of players_to_db from one record of fpl_data['elements']
NormalizeRow(e, snap) ==
    LET team_name == MapLookup(snap.teams, e.team)
        cost == Cost(e.now_cost)
    IN [id |-> e.id,
        web_name |-> e.web_name,
        team_name |-> team_name,
        position |-> MapLookup(snap.element_types, e.element_type),
        cost |-> cost,
        total_points |-> e.total_points,
        display_name |-> StrCat(StrCat(StrCat(e.web_name, " ("), team_name), ")"),
        points_per_million |-> PointsPerMillion(e.total_points, cost),
        ownership_percent |-> ToNumeric(e.selected_by_percent)]

NormalizeSkipFree(snap) ==
    LET keep == SelectSeq(snap.elements, LAMBDA e : e.now_cost # 0)
    IN [j \in 1..Len(keep) |-> NormalizeRow(keep[j], snap)]

\* players_to_db: one row per record of fpl_data['elements'], in their order
Normalize(snap) == [j \in 1..Len(snap.elements) |-> NormalizeRow(snap.elements[j], snap)]

\* line 94 raises ValueError (Unable to parse string) when a record's
\* selected_by_percent is not the text of a number
ToNumericRaises(snap) ==
    \E j \in 1..Len(snap.elements) :
        ToNumeric(snap.elements[j].selected_by_percent).k = "ValueError"

PlayerColumns == {"id", "web_name", "team_name", "position", "cost", "total_points",
                  "display_name", "points_per_million", "ownership_percent"}

\* all_player_ids = players_df['id'].tolist()
PlayerIds(snap) == [j \in 1..Len(snap.elements) |-> snap.elements[j].id]

-----------------------------------------------------------------------------
(* The inputs: snapshots and history responses the API can return *)

PlayerIdSet == 1..MaxPlayers

\* (now_cost, total_points) of a record: a priced player, a free player with
\* points, a free player without points
CostPoints == {<<45, 6>>, <<0, 6>>, <<0, 0>>}

Elements ==
    {[id |-> id, web_name |-> "Saka", team |-> 1, element_type |-> 2,
      now_cost |-> cp[1], total_points |-> cp[2], selected_by_percent |-> "12.5"] :
        id \in PlayerIdSet, cp \in CostPoints}

RECURSIVE SeqsDistinctIds(_)
\* the sequences of n records with pairwise different ids
SeqsDistinctIds(n) ==
    IF n = 0 THEN {<<>>}
    ELSE {Append(p[1], p[2]) :
            p \in {q \in SeqsDistinctIds(n - 1) \X Elements :
                     \A j \in 1..Len(q[1]) : q[1][j].id # q[2].id}}

MkSnapshot(elements) ==
    [ok |-> TRUE, elements |-> elements, teams |-> Teams, element_types |-> ElementTypes]

\* get_fpl_data returned None (line 40)
NoData == [ok |-> FALSE, elements |-> <<>>, teams |-> <<>>, element_types |-> <<>>]

\* the snapshots of Spec: 1..MaxPlayers records that conform to the API
Snapshots == {MkSnapshot(s) : s \in UNION {SeqsDistinctIds(n) : n \in 1..MaxPlayers}}

\* records with a shape anomaly: a team or position id that the snapshot's
\* lookups do not hold, an ownership text that is not a number
UnknownId == 99
AnomalousElements ==
    {[id |-> id, web_name |-> "Saka", team |-> t, element_type |-> et,
      now_cost |-> 45, total_points |-> 6, selected_by_percent |-> own] :
        id \in PlayerIdSet, t \in {1, UnknownId}, et \in {2, UnknownId},
        own \in {"12.5", "n/a"}}

RECURSIVE AnomalousSeqs(_)
\* the sequences of n such records with pairwise different ids
AnomalousSeqs(n) ==
    IF n = 0 THEN {<<>>}
    ELSE {Append(p[1], p[2]) :
            p \in {q \in AnomalousSeqs(n - 1) \X AnomalousElements :
                     \A j \in 1..Len(q[1]) : q[1][j].id # q[2].id}}

\* the snapshots of SpecAnomaly
AnomalousSnapshots == {MkSnapshot(s) : s \in UNION {AnomalousSeqs(n) : n \in 1..MaxPlayers}}

Entry(round, total_points, minutes) ==
    [round |-> round, total_points |-> total_points, minutes |-> minutes]

\* get_player_gameweek_history returned None (line 51)
NoHistory == [ok |-> FALSE, history |-> <<>>]

\* element-summary responses: failure, no fixture yet, two rounds, and two
\* fixtures of the same round (a double gameweek)
HistoryResponses ==
    {NoHistory,
     [ok |-> TRUE, history |-> <<>>],
     [ok |-> TRUE, history |-> <<Entry(1, 5, 90), Entry(2, 3, 45)>>],
     [ok |-> TRUE, history |-> <<Entry(2, 3, 45), Entry(2, 7, 90)>>]}

-----------------------------------------------------------------------------
(* The store: tables players and gameweek_history *)

EmptyBag == <<>>

NoPlayers == [exists |-> FALSE, cols |-> {}, rows |-> <<>>]
NoHistoryTable == [exists |-> FALSE, rows |-> EmptyBag]

HistoryRow(player_id, gw) ==
    [player_id |-> player_id, gameweek |-> gw.round,
     total_points |-> gw.total_points, minutes |-> gw.minutes]

\* PRIMARY KEY (player_id, gameweek), line 66
SameKey(r, q) == r.player_id = q.player_id /\ r.gameweek = q.gameweek

\* a plain INSERT into a table without the primary key
InsertPlain(rows, r) ==
    [x \in DOMAIN rows \cup {r} |->
        IF x = r THEN (IF r \in DOMAIN rows THEN rows[r] + 1 ELSE 1) ELSE rows[x]]

\* INSERT OR REPLACE INTO gameweek_history VALUES (?, ?, ?, ?), line 114:
\* the rows that conflict on the primary key are deleted, then r is inserted
Upsert(rows, r) ==
    LET keep == {x \in DOMAIN rows : ~SameKey(x, r)}
    IN [x \in keep \cup {r} |-> IF x = r THEN 1 ELSE rows[x]]

RECURSIVE UpsertAll(_, _, _)
\* the loop of lines 113-115 over history_data['history']
UpsertAll(rows, player_id, hist) ==
    IF hist = <<>> THEN rows
    ELSE UpsertAll(Upsert(rows, HistoryRow(player_id, Head(hist))), player_id, Tail(hist))

\* CREATE TABLE IF NOT EXISTS players (...), lines 57-62
CreatePlayers(t) == IF t.exists THEN t ELSE [exists |-> TRUE, cols |-> PlayerColumns, rows |-> <<>>]

SkipCreate(t) == t

\* CREATE TABLE IF NOT EXISTS gameweek_history (...), lines 63-67
CreateHistory(t) == IF t.exists THEN t ELSE [exists |-> TRUE, rows |-> EmptyBag]

KeepTable(t) == t

\* DROP TABLE IF EXISTS players, line 74
DropPlayers(t) == NoPlayers

\* DROP TABLE IF EXISTS gameweek_history, line 75
DropHistory(t) == NoHistoryTable

\* players_to_db.to_sql('players', conn, if_exists='replace', index=False)
ToSqlReplace(t, frame) == [exists |-> TRUE, cols |-> PlayerColumns, rows |-> frame]

ProbeIdColumn(t) == t.exists /\ "id" \in t.cols

\* SELECT points_per_million FROM players LIMIT 1 raises no OperationalError
ProbeOK(t) == t.exists /\ "points_per_million" \in t.cols

\* the outcome of lines 134-137 on the file: "ok" or the exception raised.  A
\* file that is not an SQLite database makes execute raise
\* sqlite3.DatabaseError (file is not a database); a missing table or column
\* makes it raise sqlite3.OperationalError, a subclass of DatabaseError
ProbeResult(fmt, t) ==
    IF fmt # "sqlite" THEN "DatabaseError"
    ELSE IF ProbeOK(t) THEN "ok" ELSE "OperationalError"

CaughtAny(exc) == TRUE

\* except sqlite3.OperationalError, line 139
Caught(exc) == exc = "OperationalError"

ProbeFlagEarly(ok) == TRUE

\* is_schema_correct: False at line 133, True at line 138 once execute returned
ProbeFlag(ok) == ok

\* cursor.execute steps the SELECT once: a row of a non-empty table stays
\* pending in the cursor, which keeps the connection's read lock on the file
\* until check_and_update_db's cursor is released (line 137)
ProbeHoldsLock(t) == t.rows # <<>>

\* datetime.now() - last_modified_time > timedelta(hours=UPDATE_INTERVAL_HOURS)
AgeExceeds(t_now, t_mtime) == t_now - t_mtime > UPDATE_INTERVAL_HOURS

-----------------------------------------------------------------------------
(* The initial stores: absent, written by an older revision, or current *)

\* the locals of a script run that has not started
NewRun(viaRerun) ==
    [viaRerun |-> viaRerun, started |-> 0, is_schema_correct |-> FALSE, checked |-> FALSE]
NoRun == NewRun(FALSE)
NoProcs == <<>>

NoPre == [set |-> FALSE, players |-> <<>>, history |-> EmptyBag]
NoView == [done |-> FALSE, players_df |-> <<>>, history_df |-> <<>>, selected |-> {}, chart |-> <<>>]

OldColumns == PlayerColumns \ {"points_per_million", "ownership_percent"}

OldPlayerRows ==
    <<[id |-> 1, web_name |-> "Saka", team_name |-> "ARS", position |-> "FWD",
       cost |-> Num(45, 10), total_points |-> 4, display_name |-> "Saka (ARS)"]>>

SeedSnapshot ==
    MkSnapshot(<<[id |-> 1, web_name |-> "Saka", team |-> 1, element_type |-> 2,
                  now_cost |-> 45, total_points |-> 4, selected_by_percent |-> "0.0"]>>)

SeedHistory == UpsertAll(EmptyBag, 1, <<Entry(1, 2, 90)>>)

InitialStores ==
    {[dbExists |-> FALSE, format |-> "sqlite", players |-> NoPlayers, history |-> NoHistoryTable],
     [dbExists |-> TRUE, format |-> "sqlite",
      players |-> [exists |-> TRUE, cols |-> OldColumns, rows |-> OldPlayerRows],
      history |-> [exists |-> TRUE, rows |-> SeedHistory]],
     [dbExists |-> TRUE, format |-> "sqlite",
      players |-> [exists |-> TRUE, cols |-> PlayerColumns, rows |-> Normalize(SeedSnapshot)],
      history |-> [exists |-> TRUE, rows |-> SeedHistory]],
     \* a file fpl.db that is not an SQLite database
     [dbExists |-> TRUE, format |-> "garbage", players |-> NoPlayers, history |-> NoHistoryTable]}

Idle ==
    /\ pc = "idle"
    /\ caller = "none"
    /\ fpl_data = NoData
    /\ i = 0
    /\ attempts = <<>>
    /\ refreshes = 0
    /\ txn = [open |-> FALSE, rows |-> EmptyBag]
    /\ pre = NoPre
    /\ deferred = FALSE
    /\ probeCursor = FALSE
    /\ error = "none"
    /\ run = NoRun
    /\ procs = NoProcs

Init ==
    /\ \E st \in InitialStores :
         /\ dbExists = st.dbExists
         /\ players = st.players
         /\ history = st.history
         /\ fileFormat = st.format
    /\ mtime = 0
    /\ now = 0
    /\ Idle
    /\ view = NoView

-----------------------------------------------------------------------------
(* The script run: check_and_update_db, then load_data_from_db *)

\* what update_database finds when it is called, for every caller
CallUpdate(who) ==
    /\ pc' = "drop"
    /\ caller' = who
    /\ refreshes' = refreshes + 1

\* a browser session starts or reruns the script (line 158)
StartRun ==
    /\ pc = "idle"
    /\ pc' = "check"
    /\ refreshes' = 0
    /\ pre' = NoPre
    /\ error' = "none"
    /\ UNCHANGED <<dbExists, mtime, now, players, history, txn, caller, fpl_data,
                   i, attempts, deferred, probeCursor, view, fileFormat, procs>>
    /\ run' = NewRun(FALSE)

\* lines 126-131: the store is absent
StoreAbsent ==
    /\ pc = "check"
    /\ ~dbExists
    /\ dbExists' = TRUE
    /\ players' = CreatePlayers(players)
    /\ history' = CreateHistory(history)
    /\ mtime' = now
    /\ CallUpdate("absent")
    /\ pre' = [set |-> TRUE, players |-> players'.rows, history |-> history'.rows]
    /\ UNCHANGED <<now, txn, fpl_data, i, attempts, deferred, probeCursor, error, view, fileFormat, procs>>
    /\ run' = [run EXCEPT !.started = now]

\* lines 126-127: the store exists
StorePresent ==
    /\ pc = "check"
    /\ dbExists
    /\ pc' = "probe"
    /\ UNCHANGED <<dbExists, mtime, now, players, history, txn, caller, fpl_data,
                   i, attempts, refreshes, pre, deferred, probeCursor, error, view, fileFormat, procs>>
    /\ UNCHANGED run

\* lines 133-138: the probe reads the column, is_schema_correct = True
ProbeCurrent ==
    /\ pc = "probe"
    /\ ProbeResult(fileFormat, players) = "ok"
    /\ probeCursor' = ProbeHoldsLock(players)
    /\ pc' = "age"
    /\ UNCHANGED <<dbExists, mtime, now, players, history, txn, caller, fpl_data,
                   i, attempts, refreshes, pre, deferred, error, view, fileFormat, procs>>
    /\ run' = [run EXCEPT !.is_schema_correct = ProbeFlag(TRUE)]

\* lines 139-141: sqlite3.OperationalError, the schema is outdated
ProbeStale ==
    /\ pc = "probe"
    /\ ProbeResult(fileFormat, players) # "ok"
    /\ Caught(ProbeResult(fileFormat, players))
    /\ CallUpdate("stale")
    /\ pre' = [set |-> TRUE, players |-> players.rows, history |-> history.rows]
    /\ UNCHANGED <<dbExists, mtime, now, players, history, txn, fpl_data,
                   i, attempts, deferred, probeCursor, error, view, fileFormat, procs>>
    /\ run' = [run EXCEPT !.is_schema_correct = ProbeFlag(FALSE), !.started = now]

\* lines 134-139: the probe raises an exception that line 139 does not catch;
\* it leaves check_and_update_db at line 158, outside the try of line 160,
\* and ends the script run
ProbeRaises ==
    /\ pc = "probe"
    /\ ProbeResult(fileFormat, players) # "ok"
    /\ ~Caught(ProbeResult(fileFormat, players))
    /\ error' = ProbeResult(fileFormat, players)
    /\ pc' = "idle"
    /\ caller' = "none"
    /\ refreshes' = 0
    /\ pre' = NoPre
    /\ run' = NoRun
    /\ UNCHANGED <<dbExists, mtime, now, players, history, txn, fpl_data, i, attempts,
                   deferred, probeCursor, view, fileFormat, procs>>

\* lines 143-147: the store is older than the threshold
AgeStale ==
    /\ pc = "age"
    /\ AgeExceeds(now, mtime)
    /\ CallUpdate("age")
    /\ pre' = [set |-> TRUE, players |-> players.rows, history |-> history.rows]
    /\ UNCHANGED <<dbExists, mtime, now, players, history, txn, fpl_data,
                   i, attempts, deferred, probeCursor, error, view, fileFormat, procs>>
    /\ run' = [run EXCEPT !.started = now]

\* lines 143-145: the store is fresh, check_and_update_db returns
AgeFresh ==
    /\ pc = "age"
    /\ ~AgeExceeds(now, mtime)
    /\ probeCursor' = FALSE
    /\ pc' = "load"
    /\ UNCHANGED <<dbExists, mtime, now, players, history, txn, caller, fpl_data,
                   i, attempts, refreshes, pre, deferred, error, view, fileFormat, procs>>
    /\ run' = [run EXCEPT !.checked = TRUE]

\* lines 72-74 with the probe's read lock still held by this process: DROP
\* TABLE cannot take the exclusive lock, sqlite3.OperationalError (database is
\* locked) leaves update_database and check_and_update_db and ends the run
DropLocked ==
    /\ pc = "drop"
    /\ probeCursor
    /\ error' = "OperationalError"
    /\ probeCursor' = FALSE
    /\ pc' = "idle"
    /\ caller' = "none"
    /\ refreshes' = 0
    /\ pre' = NoPre
    /\ UNCHANGED <<dbExists, mtime, now, players, history, txn, fpl_data, i, attempts,
                   deferred, view, fileFormat, procs>>
    /\ run' = NoRun

\* lines 72-75 of update_database
DropTables ==
    /\ pc = "drop"
    /\ ~probeCursor
    /\ players' = DropPlayers(players)
    /\ history' = DropHistory(history)
    /\ mtime' = IF players.exists \/ history.exists THEN now ELSE mtime
    /\ deferred' = FALSE
    /\ pc' = "create"
    /\ UNCHANGED <<dbExists, now, txn, caller, fpl_data, i, attempts, refreshes, pre, probeCursor, error, view, fileFormat, procs>>
    /\ UNCHANGED run

\* line 77: create_database_tables()
CreateTables ==
    /\ pc = "create"
    /\ players' = CreatePlayers(players)
    /\ history' = CreateHistory(history)
    /\ mtime' = IF players.exists /\ history.exists THEN mtime ELSE now
    /\ pc' = "fetch"
    /\ UNCHANGED <<dbExists, now, txn, caller, fpl_data, i, attempts, refreshes, pre,
                   deferred, probeCursor, error, view, fileFormat, procs>>
    /\ UNCHANGED run

\* lines 80-83: get_fpl_data() returned None, update_database returns
FetchFails ==
    /\ pc = "fetch"
    /\ fpl_data' = NoData
    /\ deferred' = TRUE
    /\ pc' = "returned"
    /\ UNCHANGED <<dbExists, mtime, now, players, history, txn, caller, i, attempts,
                   refreshes, pre, probeCursor, error, view, fileFormat, procs>>
    /\ UNCHANGED run

\* check_and_update_db after update_database returned: return (line 131), or
\* line 143 after the except branch of line 141, or the end after line 147
UpdateReturns ==
    /\ pc = "returned"
    /\ IF caller = "stale" /\ run.is_schema_correct
       THEN /\ pc' = "age"
            /\ UNCHANGED run
       ELSE /\ pc' = "load"
            /\ run' = [run EXCEPT !.checked = TRUE]
    /\ UNCHANGED <<dbExists, mtime, now, players, history, txn, caller, fpl_data, i,
                   attempts, refreshes, pre, deferred, probeCursor, error, view,
                   fileFormat, procs>>

\* line 80: get_fpl_data() returned the snapshot
FetchSnapshot ==
    /\ pc = "fetch"
    /\ \E snap \in Snapshots : fpl_data' = snap
    /\ pre' = NoPre
    /\ pc' = "replace"
    /\ UNCHANGED <<dbExists, mtime, now, players, history, txn, caller, i, attempts,
                   refreshes, deferred, probeCursor, error, view, fileFormat, procs>>
    /\ UNCHANGED run

\* lines 85-108: normalise, replace the players table, open the history loop
ReplacePlayers ==
    /\ pc = "replace"
    /\ ~ToNumericRaises(fpl_data)
    /\ players' = ToSqlReplace(players, Normalize(fpl_data))
    /\ mtime' = now
    /\ txn' = [open |-> TRUE, rows |-> history.rows]
    /\ i' = 0
    /\ attempts' = <<>>
    /\ pc' = "hist"
    /\ UNCHANGED <<dbExists, now, history, caller, fpl_data, refreshes, pre, deferred, probeCursor, error, view, fileFormat, procs>>
    /\ run' = [run EXCEPT !.started = 0]

NextPlayerRetry(k, resp) == IF resp.ok THEN k + 1 ELSE k

\* enumerate(all_player_ids): the loop moves on whatever the fetch returned
NextPlayer(k, resp) == k + 1

\* lines 110-116: one iteration of the history loop
FetchHistory ==
    /\ pc = "hist"
    /\ i < Len(PlayerIds(fpl_data))
    /\ \E resp \in HistoryResponses :
         LET player_id == PlayerIds(fpl_data)[i + 1]
         IN /\ attempts' = Append(attempts, [id |-> player_id, resp |-> resp])
            /\ txn' = IF resp.ok
                      THEN [txn EXCEPT !.rows = UpsertAll(txn.rows, player_id, resp.history)]
                      ELSE txn
            /\ i' = NextPlayer(i, resp)
    /\ UNCHANGED <<dbExists, mtime, now, players, history, pc, caller, fpl_data,
                   refreshes, pre, deferred, probeCursor, error, view, fileFormat, procs>>
    /\ UNCHANGED run

\* line 118: conn.commit()
Commit ==
    /\ pc = "hist"
    /\ i >= Len(PlayerIds(fpl_data))
    /\ history' = [history EXCEPT !.rows = txn.rows]
    /\ mtime' = IF txn.rows # history.rows THEN now ELSE mtime
    /\ txn' = [open |-> FALSE, rows |-> EmptyBag]
    /\ pc' = "rerun"
    /\ UNCHANGED <<dbExists, now, players, caller, fpl_data, i, attempts, refreshes,
                   pre, deferred, probeCursor, error, view, fileFormat, procs>>
    /\ UNCHANGED run

\* lines 120-122: st.rerun() ends this script run and starts the next one
Rerun ==
    /\ pc = "rerun"
    /\ pc' = "check"
    /\ caller' = "none"
    /\ fpl_data' = NoData
    /\ i' = 0
    /\ attempts' = <<>>
    /\ refreshes' = 0
    /\ UNCHANGED <<dbExists, mtime, now, players, history, txn, pre, deferred, probeCursor, error, view, fileFormat, procs>>
    /\ run' = NewRun(TRUE)

\* lines 160-161 and the rendering: the script run ends
Load ==
    /\ pc = "load"
    /\ pc' = "idle"
    /\ caller' = "none"
    /\ fpl_data' = NoData
    /\ i' = 0
    /\ attempts' = <<>>
    /\ refreshes' = 0
    /\ pre' = NoPre
    /\ UNCHANGED <<dbExists, mtime, now, players, history, txn, deferred, probeCursor, error, view, fileFormat, procs>>
    /\ run' = NoRun

\* the wall clock advances by hours only where the script can wait that long:
\* between script runs, and inside requests.get, which is called without a
\* timeout (lines 35 and 46)
Tick ==
    /\ pc \in {"idle", "fetch", "hist"}
    /\ now + TickHours <= MaxTime
    /\ now' = now + TickHours
    /\ UNCHANGED <<dbExists, mtime, players, history, txn, pc, caller, fpl_data,
                   i, attempts, refreshes, pre, deferred, probeCursor, error, view, fileFormat, procs>>
    /\ UNCHANGED run

Next ==
    \/ StartRun
    \/ StoreAbsent
    \/ StorePresent
    \/ ProbeCurrent
    \/ ProbeStale
    \/ ProbeRaises
    \/ AgeStale
    \/ AgeFresh
    \/ DropLocked
    \/ DropTables
    \/ CreateTables
    \/ FetchFails
    \/ UpdateReturns
    \/ FetchSnapshot
    \/ ReplacePlayers
    \/ FetchHistory
    \/ Commit
    \/ Rerun
    \/ Load
    \/ Tick

Spec == Init /\ [][Next]_vars

-----------------------------------------------------------------------------
(* Snapshots with shape anomalies, as their own specification: the script   *)
(* runs of Spec, with get_fpl_data also returning the snapshots of          *)
(* AnomalousSnapshots.                                                      *)

\* line 80: get_fpl_data() returned a snapshot with anomalous records
FetchAnomalous ==
    /\ pc = "fetch"
    /\ \E snap \in AnomalousSnapshots : fpl_data' = snap
    /\ pre' = NoPre
    /\ pc' = "replace"
    /\ UNCHANGED <<dbExists, mtime, now, players, history, txn, caller, i, attempts,
                   refreshes, deferred, probeCursor, error, view, run, fileFormat, procs>>

\* line 94: pd.to_numeric raises ValueError; nothing of lines 70-122 or
\* 124-147 catches it, and line 158 is outside the try of line 160, so the
\* script run ends with the tables as line 77 left them
NormalizeRaises ==
    /\ pc = "replace"
    /\ ToNumericRaises(fpl_data)
    /\ error' = "ValueError"
    /\ pc' = "idle"
    /\ caller' = "none"
    /\ fpl_data' = NoData
    /\ refreshes' = 0
    /\ pre' = NoPre
    /\ run' = NoRun
    /\ UNCHANGED <<dbExists, mtime, now, players, history, txn, i, attempts,
                   deferred, probeCursor, view, fileFormat, procs>>

NextAnomaly ==
    \/ Next
    \/ FetchAnomalous
    \/ NormalizeRaises

SpecAnomaly == Init /\ [][NextAnomaly]_vars

-----------------------------------------------------------------------------
(* Two processes running update_database on the same store, as their own    *)
(* specification.  Both receive ConcSnapshot and, for player id,            *)
(* ConcHistory(id).  SQLite serialises writers with a file lock: a          *)
(* statement that has to write while another connection's write transaction *)
(* is open waits, and raises OperationalError (database is locked) when the *)
(* wait exceeds the connection's timeout (5 seconds by default).            *)

Procs == {1, 2}

ConcSnapshot ==
    MkSnapshot(<<[id |-> 1, web_name |-> "Saka", team |-> 1, element_type |-> 2,
                  now_cost |-> 45, total_points |-> 6, selected_by_percent |-> "12.5"],
                 [id |-> 2, web_name |-> "Saka", team |-> 1, element_type |-> 2,
                  now_cost |-> 45, total_points |-> 6, selected_by_percent |-> "12.5"]>>)

\* the element-summary response for a player, the same for both processes
ConcHistory(id) ==
    IF id = 1 THEN <<Entry(1, 5, 90), Entry(2, 3, 45)>> ELSE <<Entry(2, 3, 45), Entry(2, 7, 90)>>

\* a process about to run line 72
NewProc == [pc |-> "dropP", i |-> 0, inTxn |-> FALSE, rows |-> EmptyBag, error |-> "none"]

\* another process holds the write lock: its INSERT OR REPLACE statements of
\* line 114 are not committed yet
OtherInTxn(p) == \E q \in Procs \ {p} : procs[q].inTxn

ConcInit ==
    /\ \E st \in {x \in InitialStores : x.format = "sqlite"} :
         /\ dbExists = TRUE
         /\ players = CreatePlayers(st.players)
         /\ history = CreateHistory(st.history)
         /\ fileFormat = st.format
    /\ mtime = 0
    /\ now = 0
    /\ pc = "idle"
    /\ caller = "none"
    /\ fpl_data = NoData
    /\ i = 0
    /\ attempts = <<>>
    /\ refreshes = 0
    /\ txn = [open |-> FALSE, rows |-> EmptyBag]
    /\ pre = NoPre
    /\ deferred = FALSE
    /\ probeCursor = FALSE
    /\ error = "none"
    /\ run = NoRun
    /\ view = NoView
    /\ procs = [p \in Procs |-> NewProc]

\* what no step of the concurrent refresh changes
ConcFrame ==
    UNCHANGED <<dbExists, mtime, now, txn, pc, caller, fpl_data, i, attempts, refreshes,
                pre, deferred, probeCursor, error, view, run, fileFormat>>

\* line 74: DROP TABLE IF EXISTS players (a write when the table exists)
ConcDropPlayers(p) ==
    /\ procs[p].pc = "dropP"
    /\ ~(players.exists /\ OtherInTxn(p))
    /\ players' = DropPlayers(players)
    /\ procs' = [procs EXCEPT ![p].pc = "dropH"]
    /\ UNCHANGED history
    /\ ConcFrame

\* line 75: DROP TABLE IF EXISTS gameweek_history
ConcDropHistory(p) ==
    /\ procs[p].pc = "dropH"
    /\ ~(history.exists /\ OtherInTxn(p))
    /\ history' = DropHistory(history)
    /\ procs' = [procs EXCEPT ![p].pc = "createP"]
    /\ UNCHANGED players
    /\ ConcFrame

\* lines 57-62: CREATE TABLE IF NOT EXISTS players (a write when it is absent)
ConcCreatePlayers(p) ==
    /\ procs[p].pc = "createP"
    /\ ~(~players.exists /\ OtherInTxn(p))
    /\ players' = CreatePlayers(players)
    /\ procs' = [procs EXCEPT ![p].pc = "createH"]
    /\ UNCHANGED history
    /\ ConcFrame

\* lines 63-68: CREATE TABLE IF NOT EXISTS gameweek_history
ConcCreateHistory(p) ==
    /\ procs[p].pc = "createH"
    /\ ~(~history.exists /\ OtherInTxn(p))
    /\ history' = CreateHistory(history)
    /\ procs' = [procs EXCEPT ![p].pc = "replace"]
    /\ UNCHANGED players
    /\ ConcFrame

\* lines 80-108: the snapshot is fetched and normalised, to_sql replaces players
ConcReplacePlayers(p) ==
    /\ procs[p].pc = "replace"
    /\ ~OtherInTxn(p)
    /\ players' = ToSqlReplace(players, Normalize(ConcSnapshot))
    /\ procs' = [procs EXCEPT ![p].pc = "hist", ![p].i = 0]
    /\ UNCHANGED history
    /\ ConcFrame

\* lines 110-116: one iteration of the history loop; the first INSERT OR
\* REPLACE begins this connection's write transaction
ConcUpsert(p) ==
    /\ procs[p].pc = "hist"
    /\ procs[p].i < Len(PlayerIds(ConcSnapshot))
    /\ history.exists
    /\ ~OtherInTxn(p)
    /\ LET player_id == PlayerIds(ConcSnapshot)[procs[p].i + 1]
           seen == IF procs[p].inTxn THEN procs[p].rows ELSE history.rows
       IN procs' = [procs EXCEPT ![p].rows = UpsertAll(seen, player_id, ConcHistory(player_id)),
                                 ![p].inTxn = TRUE,
                                 ![p].i = procs[p].i + 1]
    /\ UNCHANGED <<players, history>>
    /\ ConcFrame

\* line 118: conn.commit()
ConcCommit(p) ==
    /\ procs[p].pc = "hist"
    /\ procs[p].i >= Len(PlayerIds(ConcSnapshot))
    /\ history' = IF procs[p].inTxn THEN [history EXCEPT !.rows = procs[p].rows] ELSE history
    /\ procs' = [procs EXCEPT ![p].pc = "done", ![p].inTxn = FALSE, ![p].rows = EmptyBag]
    /\ UNCHANGED players
    /\ ConcFrame

\* the statement this process is about to run has to write
WantsWrite(p) ==
    \/ procs[p].pc = "dropP" /\ players.exists
    \/ procs[p].pc = "dropH" /\ history.exists
    \/ procs[p].pc = "createP" /\ ~players.exists
    \/ procs[p].pc = "createH" /\ ~history.exists
    \/ procs[p].pc = "replace"
    \/ procs[p].pc = "hist" /\ procs[p].i < Len(PlayerIds(ConcSnapshot)) /\ history.exists

\* the other process's transaction outlasts this connection's timeout:
\* sqlite3.OperationalError (database is locked) leaves update_database
ConcLocked(p) ==
    /\ WantsWrite(p)
    /\ OtherInTxn(p)
    /\ procs' = [procs EXCEPT ![p].pc = "failed", ![p].error = "database is locked",
                              ![p].inTxn = FALSE, ![p].rows = EmptyBag]
    /\ UNCHANGED <<players, history>>
    /\ ConcFrame

\* line 114 after the other process dropped gameweek_history (line 75) and
\* before it recreated it: sqlite3.OperationalError (no such table)
ConcNoTable(p) ==
    /\ procs[p].pc = "hist"
    /\ procs[p].i < Len(PlayerIds(ConcSnapshot))
    /\ ~history.exists
    /\ procs' = [procs EXCEPT ![p].pc = "failed", ![p].error = "no such table",
                              ![p].inTxn = FALSE, ![p].rows = EmptyBag]
    /\ UNCHANGED <<players, history>>
    /\ ConcFrame

ConcNext ==
    \E p \in Procs :
        \/ ConcDropPlayers(p)
        \/ ConcDropHistory(p)
        \/ ConcCreatePlayers(p)
        \/ ConcCreateHistory(p)
        \/ ConcReplacePlayers(p)
        \/ ConcUpsert(p)
        \/ ConcCommit(p)
        \/ ConcLocked(p)
        \/ ConcNoTable(p)

SpecConcurrent == ConcInit /\ [][ConcNext]_vars

-----------------------------------------------------------------------------
(* The comparison view, lines 195-208, as its own specification: the two    *)
(* frames load_data_from_db returned and the multiselect's choice are drawn *)
(* from the sets below, RenderComparison computes the chart's frame.        *)

\* players_df as the view reads it: ids 1 and 2, whose display names may coincide
ViewNames == {"Saka (ARS)", "Kane (CHE)"}
ViewPlayers ==
    {<<[id |-> 1, display_name |-> a], [id |-> 2, display_name |-> b]>> :
        a \in ViewNames, b \in ViewNames}

\* gameweek_history rows: player 1 scored 5, 3, 7 in gameweeks 1, 2, 3
ViewHistoryRows ==
    {[player_id |-> 1, gameweek |-> 1, total_points |-> 5, minutes |-> 90],
     [player_id |-> 1, gameweek |-> 2, total_points |-> 3, minutes |-> 90],
     [player_id |-> 1, gameweek |-> 3, total_points |-> 7, minutes |-> 90],
     [player_id |-> 2, gameweek |-> 1, total_points |-> 2, minutes |-> 90]}

\* SELECT * FROM gameweek_history has no ORDER BY: the rows in any order
Orderings(S) ==
    {f \in [1..Cardinality(S) -> S] : \A a, b \in DOMAIN f : f[a] = f[b] => a = b}

ViewHistories == UNION {Orderings(S) : S \in {ViewHistoryRows, {r \in ViewHistoryRows : r.player_id = 1}}}

\* filtered_players[display_name.isin(selected_players)]['id'].tolist()
PlayerIdsToChart(players_df, selected) ==
    {players_df[j].id : j \in {k \in DOMAIN players_df : players_df[k].display_name \in selected}}

\* players_df.set_index('id')['display_name'], applied by Series.map
PlayerMap(players_df, id) ==
    LET hit == {k \in DOMAIN players_df : players_df[k].id = id}
    IN IF hit = {} THEN Null ELSE players_df[CHOOSE k \in hit : TRUE].display_name

\* pd.to_numeric(..., errors='coerce').fillna(0)
CoerceNumeric(x) == IF x \in Int THEN x ELSE 0

\* the chart groups by the mapped 'Player' column (line 208)
GroupKey(row) == row.Player

RECURSIVE GroupCumSum(_, _, _)
\* groupby('Player')['total_points'].cumsum() at row k: the sum over the rows
\* 1..j of the frame, in frame order, that fall in row k's group
GroupCumSum(frame, k, j) ==
    IF j = 0 THEN 0
    ELSE GroupCumSum(frame, k, j - 1)
         + (IF GroupKey(frame[j]) = GroupKey(frame[k]) THEN frame[j].total_points ELSE 0)

\* chart_df_filtered with its 'Player' and 'Cumulative Points' columns
ChartFrame(players_df, history_df, selected) ==
    LET ids == PlayerIdsToChart(players_df, selected)
        kept == SelectSeq(history_df, LAMBDA r : r.player_id \in ids)
        named == [k \in DOMAIN kept |->
                    [player_id |-> kept[k].player_id,
                     gameweek |-> kept[k].gameweek,
                     total_points |-> CoerceNumeric(kept[k].total_points),
                     Player |-> PlayerMap(players_df, kept[k].player_id)]]
    IN [k \in DOMAIN named |->
          [player_id |-> named[k].player_id,
           gameweek |-> named[k].gameweek,
           Player |-> named[k].Player,
           total_points |-> named[k].total_points,
           cumulative |-> GroupCumSum(named, k, k)]]

ViewInit ==
    /\ dbExists = FALSE
    /\ players = NoPlayers
    /\ history = NoHistoryTable
    /\ mtime = 0
    /\ now = 0
    /\ Idle
    /\ fileFormat = "sqlite"
    /\ \E p \in ViewPlayers, h \in ViewHistories, sel \in (SUBSET ViewNames) \ {{}} :
         view = [done |-> FALSE, players_df |-> p, history_df |-> h,
                 selected |-> sel, chart |-> <<>>]

\* lines 198-208: the user has selected players, the chart's frame is computed
RenderComparison ==
    /\ ~view.done
    /\ view.players_df # <<>>
    /\ view' = [view EXCEPT !.done = TRUE,
                            !.chart = ChartFrame(view.players_df, view.history_df, view.selected)]
    /\ UNCHANGED <<dbExists, mtime, now, players, history, txn, pc, caller, fpl_data,
                   i, attempts, refreshes, pre, deferred, probeCursor, error,
                   run, fileFormat, procs>>

ViewNext == RenderComparison

SpecView == ViewInit /\ [][ViewNext]_vars

-----------------------------------------------------------------------------
(* Properties *)

\* C1: when the snapshot fetch fails, the players and gameweek_history rows
\* after update_database returns are the rows persisted before it was called.
C1_FetchFailureKeepsRows ==
    (pc = "load" /\ pre.set) =>
        (players.rows = pre.players /\ history.rows = pre.history)

\* C2: with the store present and the probe successful, check_and_update_db
\* performs a refresh exactly when now - mtime exceeds 12 hours (the refresh
\* it starts goes on to drop and recreate the tables); otherwise it returns
\* without a refresh and leaves both tables and mtime unchanged.
C2_RefreshIffOlderThanThreshold ==
    [][/\ (pc = "age" /\ pc' # "age") =>
            IF now - mtime > UPDATE_INTERVAL_HOURS
            THEN pc' = "drop" /\ caller' = "age" /\ refreshes' = 1
            ELSE /\ pc' = "load"
                 /\ refreshes' = 0
                 /\ fpl_data' = NoData
                 /\ players' = players
                 /\ history' = history
                 /\ mtime' = mtime
       /\ (caller = "age" /\ pc = "drop" /\ pc' # "drop") =>
            (pc' = "create" /\ error' = "none")]_vars

\* C3: store absent and snapshot fetched: both tables exist and players holds
\* one row for every entity id of the snapshot.
C3_AbsentStorePopulated ==
    (caller = "absent" /\ pc \in {"hist", "rerun"}) =>
        /\ players.exists
        /\ history.exists
        /\ \A j \in DOMAIN fpl_data.elements :
             Cardinality({k \in DOMAIN players.rows :
                            players.rows[k].id = fpl_data.elements[j].id}) = 1

C3_Witness ==
    /\ caller = "absent"
    /\ pc = "rerun"
    /\ Len(fpl_data.elements) >= 2
    /\ \E j \in DOMAIN fpl_data.elements : fpl_data.elements[j].now_cost = 0

HasPointsPerMillion(row) ==
    "points_per_million" \in DOMAIN row /\ row.points_per_million.k # "nan"

\* C4: a players table without points_per_million is reported stale and
\* triggers a refresh, after which the table has the column, with a value in
\* every row.
C4_StaleSchemaRebuilt ==
    [][/\ (pc = "probe" /\ pc' # "probe" /\ players.exists
              /\ "points_per_million" \notin players.cols)
            => (pc' = "drop" /\ caller' = "stale" /\ refreshes' = 1)
       /\ (caller' = "stale" /\ pc' \in {"rerun", "load"})
            => /\ players'.exists
               /\ "points_per_million" \in players'.cols
               /\ \A j \in DOMAIN players'.rows : HasPointsPerMillion(players'.rows[j])]_vars

C4_Witness ==
    /\ caller = "stale"
    /\ pc = "rerun"
    /\ players.rows # <<>>
    /\ \E j \in DOMAIN players.rows : players.rows[j].cost.n = 0

UniqueKeys(rows) ==
    \A r \in DOMAIN rows :
        /\ rows[r] = 1
        /\ \A q \in DOMAIN rows : SameKey(r, q) => r = q

\* the last entry of hist for the round of hist[k]
IsLastOfRound(hist, k) == \A m \in DOMAIN hist : m > k => hist[m].round # hist[k].round

\* the rows any history response can produce
CandidateRows ==
    UNION {{HistoryRow(p, r.history[k]) : k \in DOMAIN r.history} :
             p \in PlayerIdSet, r \in HistoryResponses}

\* the rows of the table the history loop has written so far
LoopRows == IF txn.open THEN txn.rows ELSE history.rows

\* C5: gameweek_history holds at most one row per (player_id, gameweek); an
\* upsert of an existing key replaces the row, so the row of a key carries the
\* values of the last upsert for it, and upserting an entry twice gives the
\* table that upserting it once gives.
C5_UpsertUniqueLastWins ==
    /\ UniqueKeys(history.rows)
    /\ UniqueKeys(txn.rows)
    /\ pc \in {"hist", "rerun"} =>
         \A j \in DOMAIN attempts :
             \A k \in DOMAIN attempts[j].resp.history :
                 LET hist == attempts[j].resp.history
                     r == HistoryRow(attempts[j].id, hist[k])
                 IN /\ Cardinality({x \in DOMAIN LoopRows : SameKey(x, r)}) = 1
                    /\ IsLastOfRound(hist, k) => r \in DOMAIN LoopRows
    /\ \A r \in CandidateRows :
         LET once == Upsert(LoopRows, r)
         IN Upsert(once, r) = once /\ once[r] = 1

\* two fixtures of one round were upserted: the second replaced the first
C5_Witness ==
    /\ pc = "rerun"
    /\ \E j \in DOMAIN attempts :
         LET hist == attempts[j].resp.history
         IN /\ Len(hist) = 2
            /\ hist[1].round = hist[2].round
            /\ HistoryRow(attempts[j].id, hist[2]) \in DOMAIN history.rows
            /\ HistoryRow(attempts[j].id, hist[1]) \notin DOMAIN history.rows

\* C6: in every normalized row, points_per_million is total_points / cost
\* when cost > 0 and is 0 when cost = 0, whatever total_points is.
C6_PointsPerMillion ==
    \A j \in DOMAIN players.rows :
        LET row == players.rows[j]
        IN "points_per_million" \in DOMAIN row =>
             /\ row.cost.n > 0 =>
                  NumEq(NumMul(row.points_per_million, row.cost), Num(row.total_points, 1))
             /\ row.cost.n = 0 => NumEq(row.points_per_million, Num(0, 1))

\* C7: every player id of the snapshot gets exactly one history fetch, in
\* snapshot order; a failed fetch writes nothing for its player, is not
\* retried and does not stop the loop, and the commit holds the entries of
\* every player whose fetch succeeded.
C7_OneHistoryFetchPerPlayer ==
    pc \in {"hist", "rerun"} =>
        /\ Len(attempts) = i
        /\ i <= Len(fpl_data.elements)
        /\ pc = "rerun" => Len(attempts) = Len(fpl_data.elements)
        /\ \A j \in DOMAIN attempts :
             /\ attempts[j].id = fpl_data.elements[j].id
             /\ ~attempts[j].resp.ok =>
                  \A x \in DOMAIN LoopRows : x.player_id # attempts[j].id
             /\ attempts[j].resp.ok =>
                  \A k \in DOMAIN attempts[j].resp.history :
                      \E x \in DOMAIN LoopRows :
                          SameKey(x, HistoryRow(attempts[j].id, attempts[j].resp.history[k]))

\* the first player's fetch failed, the second player's entries are committed
C7_Witness ==
    /\ pc = "rerun"
    /\ Len(attempts) >= 2
    /\ ~attempts[1].resp.ok
    /\ attempts[2].resp.ok
    /\ \E x \in DOMAIN history.rows : x.player_id = attempts[2].id

\* the running sum of player_id's total_points over the gameweeks up to gw
RunningSum(history_df, player_id, gw) ==
    LET rows == {k \in DOMAIN history_df :
                   history_df[k].player_id = player_id /\ history_df[k].gameweek <= gw}
        RECURSIVE Sum(_)
        Sum(S) == IF S = {} THEN 0
                  ELSE LET k == CHOOSE x \in S : TRUE
                       IN history_df[k].total_points + Sum(S \ {k})
    IN Sum(rows)

\* C8: the cumulative points the comparison view shows for a player at a
\* gameweek are the running sum of that player's total_points in increasing
\* gameweek order, for any stored row order and any other selected players.
C8_CumulativeByGameweekPerPlayer ==
    view.done =>
        \A k \in DOMAIN view.chart :
            view.chart[k].cumulative =
                RunningSum(view.history_df, view.chart[k].player_id, view.chart[k].gameweek)

\* C9: after a refresh whose fetch succeeded, players holds exactly the rows
\* of the fresh snapshot and gameweek_history exactly the entries upserted by
\* this pass; no row persisted before survives unless this pass rewrote it.
C9_RefreshReplacesEverything ==
    pc = "rerun" =>
        /\ Len(players.rows) = Len(fpl_data.elements)
        /\ \A j \in DOMAIN players.rows :
             /\ players.rows[j].id = fpl_data.elements[j].id
             /\ players.rows[j].total_points = fpl_data.elements[j].total_points
             /\ players.rows[j].cost = Cost(fpl_data.elements[j].now_cost)
        /\ \A x \in DOMAIN history.rows :
             \E j \in DOMAIN attempts :
                 /\ attempts[j].resp.ok
                 /\ \E k \in DOMAIN attempts[j].resp.history :
                        x = HistoryRow(attempts[j].id, attempts[j].resp.history[k])

\* a store that held rows was refreshed and holds history rows again
C9_Witness ==
    /\ pc = "rerun"
    /\ caller \in {"stale", "age"}
    /\ history.rows # EmptyBag

\* C10: after a refresh aborted by a snapshot fetch failure, the next
\* check_and_update_db attempts a refresh again: no later invocation ends
\* without one while the aborted refresh is still the last write.
C10_AbortedRefreshRetried ==
    [][(deferred /\ pc \in {"check", "probe", "age"} /\ pc' = "load")
         => refreshes' > 0]_vars

\* the connections update_database has acquired and not released: the one of
\* line 72 stays bound to conn after its with block (which commits, and does
\* not close) until line 100 rebinds conn or the function returns; the one of
\* line 100 is open for the whole history loop
ConnectionsHeld ==
    (IF pc \in {"create", "fetch"} THEN {"line 72"} ELSE {})
    \cup (IF txn.open THEN {"line 100"} ELSE {})

\* rows upserted by line 114 that line 118 has not committed yet
PendingWrite == txn.open /\ txn.rows # history.rows

\* update_database is about to call get_fpl_data (line 80) or
\* get_player_gameweek_history (line 111)
AtNetworkFetch ==
    \/ pc = "fetch"
    \/ pc = "hist" /\ i < Len(PlayerIds(fpl_data))

\* C11: at every call of get_fpl_data or get_player_gameweek_history made by
\* update_database, every connection the refresh acquired before has been
\* released and no uncommitted write is pending.
C11_NoConnectionDuringFetch ==
    AtNetworkFetch => (ConnectionsHeld = {} /\ ~PendingWrite)

\* the history half of C11 on its own: the second history fetch of a refresh
\* is made with no open connection and no pending write
C11_HistoryFetchWithoutPendingWrite ==
    (pc = "hist" /\ i < Len(PlayerIds(fpl_data))) => (~txn.open /\ ~PendingWrite)

\* the row persisted for record e has exactly the fields null that the
\* anomaly of e affects (the display name is built from the team name)
OnlyAffectedNull(row, e, snap) ==
    /\ row.id = e.id
    /\ row.web_name = e.web_name
    /\ row.total_points = e.total_points
    /\ IsNum(row.cost)
    /\ (row.team_name = Null) <=> (e.team \notin DOMAIN snap.teams)
    /\ (row.display_name = Null) <=> (e.team \notin DOMAIN snap.teams)
    /\ (row.position = Null) <=> (e.element_type \notin DOMAIN snap.element_types)
    /\ row.ownership_percent =
         (IF e.selected_by_percent \in DOMAIN NumericText
          THEN NumericText[e.selected_by_percent] ELSE NaN)

\* every record of the snapshot has its row, in order
RowForEveryRecord(rows, snap) ==
    /\ Len(rows) = Len(snap.elements)
    /\ \A j \in 1..Len(rows) : OnlyAffectedNull(rows[j], snap.elements[j], snap)

\* C12: a shape anomaly in a record of the snapshot never aborts the refresh:
\* the step that leaves the normalisation persists a row for every record,
\* with only the affected fields null, and goes on to the history loop.
C12_AnomalyNeverAborts ==
    [][(pc = "replace" /\ pc' # "replace")
         => (pc' = "hist" /\ RowForEveryRecord(players'.rows, fpl_data))]_vars

\* the part of C12 the code does keep: a team or position id absent from its
\* lookup leaves the refresh running, with nulls in that record's row
C12_UnknownIdsYieldNulls ==
    [][(pc = "replace" /\ pc' # "replace" /\ ~ToNumericRaises(fpl_data))
         => (pc' = "hist" /\ RowForEveryRecord(players'.rows, fpl_data))]_vars

\* a step of the script run that st.rerun started, taking the age decision
RerunAgeDecision == run.viaRerun /\ pc = "age" /\ pc' # "age"

\* the writes of a refresh leave a modification time that is not earlier than
\* the refresh start: line 101 writes after the start, line 118 after line 101
WritesAfterStart ==
    /\ (pc = "replace" /\ pc' = "hist") => mtime' >= run.started
    /\ (pc = "hist" /\ pc' = "rerun") => mtime' >= mtime

\* C13: when a refresh has completed, the store's modification time is not
\* earlier than the refresh start (hours are whole in the model, so "later"
\* reads "not earlier"), and the check_and_update_db run by the st.rerun that
\* ends update_database finds the schema current and the age within the
\* threshold and starts no refresh.
C13_NoRefreshAfterSuccess ==
    [][/\ WritesAfterStart
       /\ (run.viaRerun /\ pc = "probe" /\ pc' # "probe") => pc' = "age"
       /\ RerunAgeDecision => pc' = "load"]_vars

\* what the code does keep of C13: the modification time is that of the last
\* write of the refresh, the rerun's probe succeeds, its age decision is
\* "fresh" whenever that last write is at most UPDATE_INTERVAL_HOURS old, and
\* the script run started by st.rerun never ends in another st.rerun
C13_FreshWithinThresholdOfLastWrite ==
    [][/\ WritesAfterStart
       /\ (pc' = "rerun" /\ pc # "rerun") => ProbeOK(players')
       /\ (run.viaRerun /\ pc = "probe" /\ pc' # "probe") => pc' = "age"
       /\ (RerunAgeDecision /\ now - mtime <= UPDATE_INTERVAL_HOURS) => pc' = "load"
       /\ run.viaRerun => pc' # "rerun"]_vars

\* gameweek_history after one refresh with ConcSnapshot and ConcHistory
SingleRefreshHistory ==
    UpsertAll(UpsertAll(EmptyBag, 1, ConcHistory(1)), 2, ConcHistory(2))

AllFinished == \A p \in DOMAIN procs : procs[p].pc \in {"done", "failed"}

\* C14: two processes refresh the same store concurrently with the same
\* responses: in every interleaving neither refresh fails, and once both
\* have finished the store holds exactly the rows of a single refresh.
C14_ConcurrentRefreshesConverge ==
    /\ \A p \in DOMAIN procs : procs[p].error = "none"
    /\ (procs # NoProcs /\ AllFinished)
         => (/\ players.exists /\ players.rows = Normalize(ConcSnapshot)
             /\ history.exists /\ history.rows = SingleRefreshHistory)

\* the second half of C14 alone: even where a refresh has failed, are the
\* rows of a single refresh what is left once both have finished
C14_FinalRowsOfSingleRefresh ==
    (procs # NoProcs /\ AllFinished)
        => (/\ players.exists /\ players.rows = Normalize(ConcSnapshot)
            /\ history.exists /\ history.rows = SingleRefreshHistory)

\* the step that leaves the schema probe after its read failed
ProbeFailed == pc = "probe" /\ pc' # "probe" /\ ProbeResult(fileFormat, players) # "ok"

\* C15: every failure of the schema probe, whatever its kind, is treated as
\* "schema stale": update_database is called from the except branch, and no
\* exception of the probe leaves check_and_update_db.
C15_ProbeFailureIsStale ==
    [][ProbeFailed => (pc' = "drop" /\ caller' = "stale" /\ error' = "none")]_vars

\* what the code does keep of C15: the failures that are OperationalError
\* (missing table, unknown column) lead to the refresh
C15_OperationalErrorIsStale ==
    [][(ProbeFailed /\ ProbeResult(fileFormat, players) = "OperationalError")
         => (pc' = "drop" /\ caller' = "stale" /\ error' = "none")]_vars

\* C16: one invocation of check_and_update_db starts at most one refresh.
\* The absent store is handled before the probe is made, the age is examined
\* only while no refresh was started and the probe succeeded, and a refresh
\* started for staleness leaves is_schema_correct False, so that no
\* age-triggered refresh follows it.
C16_AtMostOneRefreshPerInvocation ==
    /\ refreshes <= 1
    /\ pc = "age" => (refreshes = 0 /\ run.is_schema_correct)
    /\ caller \in {"absent", "stale"} => ~run.is_schema_correct
    /\ caller = "age" => run.is_schema_correct

\* a refresh started for a stale schema has returned (the snapshot fetch
\* failed) at a time when the store is older than the threshold, and the
\* invocation ended with that one refresh
C16_Witness ==
    /\ pc = "load"
    /\ caller = "stale"
    /\ refreshes = 1
    /\ AgeExceeds(now, mtime)

====
